---- MODULE Spec2Model ----
(***************************************************************************)
(* File watch and reindex pipeline of surreal-graph-rag: fingerprinting,   *)
(* chunking, the reprocessor, the watcher's scan cycle with its            *)
(* single-flight flag, registration, the targeted / full watch-run         *)
(* endpoint and the manual reindex endpoint, over an abstract store.       *)
(*                                                                         *)
(* Every `await` of the source is a scheduling point: an action of this    *)
(* module is the synchronous stretch of code between two awaits.  A store  *)
(* call either succeeds or throws (StoreError).                            *)
(***************************************************************************)
EXTENDS Integers, Sequences, FiniteSets, Bags, TLC

VARIABLES
  disk,      \* on-disk content per resolved location
  files,     \* table `files`: sequence of rows, row i has id i
  chunks,    \* table `chunks`: bag of chunk rows
  events,    \* table `reindex_events`: bag of event rows
  runs,      \* table `watch_runs`: sequence of rows, row i has id i
  timer,     \* the interval timers set and not cleared (watcher.ts `timer`)
  running,   \* watcher.ts `running`
  lastOpts,  \* watcher.ts `lastOpts` is set
  procs,     \* the async activities in flight (requests, cycles)
  nReqs,     \* HTTP requests received so far (bounded by MaxReqs)
  nFaults,   \* store / IO faults injected so far (bounded by MaxFaults)
  nEdits,    \* edits of the disk so far (bounded by MaxEdits)
  resp,      \* the HTTP answer given by the last step, if it gave one
  lastOk     \* history: per file, the text of the reprocessFile call that
             \* returned {changed: true} with nothing written to the file since

vars == <<disk, files, chunks, events, runs, timer, running, lastOpts,
          procs, nReqs, nFaults, nEdits, resp, lastOk>>

---------------------------------------------------------------------------
(* Bounds of the model *)

MaxFiles == 2
MaxProcs == 2
MaxRuns == 2
MaxReqs == 1
MaxEvents == 2
MaxFaults == 1
MaxEdits == 1
MaxParas == 2

---------------------------------------------------------------------------
(* Program constants *)

CHUNK_SIZE == 1000
CHUNK_OVERLAP == 200

\* A paragraph of the texts used here: ParaLen characters, paragraphs are
\* separated by "\n\n" (the first of CHUNK_SEPARATORS).  Two paragraphs do
\* not fit one chunk (2 * ParaLen + 2 > CHUNK_SIZE) and one paragraph is
\* longer than the overlap, so the splitter emits one chunk per paragraph.
ParaLen == 600

---------------------------------------------------------------------------
(* Texts, fingerprints, chunks *)

\* A text is a sequence of paragraphs; paragraph "a" is ParaLen times 'a'.
\* The texts of the model: one per number of paragraphs, the empty text
\* included, texts of different lengths sharing no paragraph with the next.
Letter(n) == IF n % 2 = 1 THEN "a" ELSE "b"
Texts == { [i \in 1..n |-> Letter(n)] : n \in 0..MaxParas }

Undefined == <<"undefined">>
ENOENT == <<"ENOENT">>
EmptyString == <<>>

\* text.length
TextLength(t) == IF Len(t) = 0 THEN 0 ELSE Len(t) * ParaLen + 2 * (Len(t) - 1)

\* SHA-256 rendered as hex: collision free on the texts of the model, and
\* never the empty string.
sha256Hex(t) == <<"sha256">> \o t

\* splitter.splitText(text) with the shared policy: the text is split on
\* "\n\n"; no two paragraphs fit one chunk, so each paragraph is a chunk.
splitText(t) == [i \in 1..Len(t) |-> <<t[i]>>]

\* content.length of one chunk
ContentLength(c) == TextLength(c)

---------------------------------------------------------------------------
(* Paths *)

rootPath == <<"root">>

\* The paths requests carry: a sequence of segments, "/" and "\\" separators:
\* a relative path, a path with a leading separator, a UNC path and a path
\* with a ".." segment.
InputPaths == { <<"a">>, <<"/", "b">>, <<"\\", "\\", "c">>, <<"..", "d">> }

\* inputPath.replace(/^[/\\]+/, "")
RECURSIVE StripLeadingSeps(_)
StripLeadingSeps(p) ==
  IF Len(p) > 0 /\ Head(p) \in {"/", "\\"} THEN StripLeadingSeps(Tail(p)) ELSE p

\* /^[A-Za-z]:[\\/]/.test(raw) || raw.startsWith("\\\\")
IsDriveAbs(p) ==
  \/ Len(p) >= 2 /\ p[1] = "C:" /\ p[2] \in {"/", "\\"}
  \/ Len(p) >= 2 /\ p[1] = "\\" /\ p[2] = "\\"

\* path.resolve(base, rel) for a rel that is not absolute: the segments of rel
\* are appended to base, a ".." segment removing the last segment
RECURSIVE resolvePath(_, _)
resolvePath(base, rel) ==
  IF Len(rel) = 0 THEN base
  ELSE IF Head(rel) = ".."
  THEN resolvePath(IF Len(base) = 0 THEN base ELSE SubSeq(base, 1, Len(base) - 1),
                   Tail(rel))
  ELSE resolvePath(Append(base, Head(rel)), Tail(rel))

\* isDriveAbs ? raw : resolvePath(rootPath, rel)
resolveOnDiskPath(raw) ==
  IF IsDriveAbs(raw) THEN raw ELSE resolvePath(rootPath, StripLeadingSeps(raw))

\* path.replaceAll("\\", "/")
SlashNormalize(p) == [i \in 1..Len(p) |-> IF p[i] = "\\" THEN "/" ELSE p[i]]

DiskPaths == { resolveOnDiskPath(p) : p \in InputPaths }

---------------------------------------------------------------------------
(* Repository (files-repo.ts) *)

FileIds == 1..MaxFiles

FileRow(id, path, status, text, sha, count) ==
  [id |-> id, upload_path |-> path, status |-> status, original_text |-> text,
   original_sha256 |-> sha, chunk_count |-> count]

\* null: no such row
NoRow == FileRow(0, EmptyString, "", Undefined, Undefined, 0)

\* db.select("files"): every row, as it is now
getAllFilesWithPaths(fs) == fs

\* db.select(id): the row, or null
getFileById(fs, id) == IF id \in 1..Len(fs) THEN fs[id] ELSE NoRow

\* A merge whose status is lost
markFileStatusLost(fs, id, status) == fs

\* db.merge(fileId, {status, updated_at}) without a patch
markFileStatus(fs, id, status) ==
  [fs EXCEPT ![id] = [@ EXCEPT !.status = status]]

\* A merge that drops the fingerprint of the patch
markFileStatusPatchKeepSha(fs, id, status, text, sha, count) ==
  [fs EXCEPT ![id] = [@ EXCEPT !.status = status, !.original_text = text,
                                !.chunk_count = count]]

\* db.merge(fileId, {status, updated_at, ...patch}) with reprocessFile's patch
markFileStatusPatch(fs, id, status, text, sha, count) ==
  [fs EXCEPT ![id] = [@ EXCEPT !.status = status, !.original_text = text,
                                !.original_sha256 = sha, !.chunk_count = count]]

\* A DELETE FROM chunks without its WHERE clause
deleteAllChunks(ch, id) == EmptyBag

\* DELETE FROM chunks WHERE file_id = $fileId
deleteChunksByFile(ch, id) ==
  [c \in {x \in DOMAIN ch : x.file_id # id} |-> ch[c]]

\* One record of insertChunks' map, index counted from 0
ChunkRecord(id, content, index, runId) ==
  [file_id |-> id, content |-> content, chunk_index |-> index,
   start_char |-> index * (1000 - 200),
   end_char |-> index * (1000 - 200) + ContentLength(content),
   token_count |-> (ContentLength(content) + 3) \div 4,
   run_id |-> runId]

\* db.create("chunks", rec)
insertChunk(ch, rec) == ch (+) SetToBag({rec})

\* The chunk rows stored for a file, and how many they are
ChunksOf(ch, id) == {c \in DOMAIN ch : c.file_id = id}
ChunkCountOf(ch, id) == BagCardinality([c \in ChunksOf(ch, id) |-> ch[c]])

\* db.create("watch_runs", {started_at, mode: "fs", scanned_count: 0, ...});
\* file_count is not a column of the created row (-1: absent)
createWatchRun(rs) ==
  Append(rs, [id |-> Len(rs) + 1, finished_at |-> FALSE, mode |-> "fs",
              scanned_count |-> 0, changed_count |-> 0, error_count |-> 0,
              file_count |-> 0 - 1])

\* db.merge(runId, {finished_at, file_count, changed_count, error_count})
finishWatchRun(rs, runId, scanned, changed, errors) ==
  [rs EXCEPT ![runId] = [@ EXCEPT !.finished_at = TRUE, !.file_count = scanned,
                                  !.changed_count = changed,
                                  !.error_count = errors]]

\* db.create("reindex_events", {...})
createReindexEvent(ev, fileId, runId, oldSha, newSha, status, message) ==
  ev (+) SetToBag({[file_id |-> fileId, run_id |-> runId, old_sha256 |-> oldSha,
                    new_sha256 |-> newSha, status |-> status,
                    message |-> message]})

---------------------------------------------------------------------------
(* Activities: one record per request or cycle in flight.  kind is the     *)
(* caller ("cycle", "targeted", "reindex", "register"), pc the await it    *)
(* waits on; rows/idx are the loop of a cycle or a targeted run, file/text *)
(* /ins/err the locals of reprocessFile.  clean and det are history:       *)
(* clean is FALSE once another activity wrote to the file of the attempt,  *)
(* det collects the (file, content) pairs a cycle found changed.           *)

ProcIds == 1..MaxProcs

Idle ==
  [kind |-> "idle", pc |-> "idle", runId |-> 0, rows |-> <<>>, idx |-> 0,
   scanned |-> 0, changed |-> 0, errors |-> 0, file |-> NoRow,
   text |-> Undefined, ins |-> 0, err |-> "", path |-> EmptyString,
   id |-> 0, src |-> Undefined, awaited |-> FALSE, clean |-> TRUE, det |-> {}]

RpPcs == {"rp_mark", "rp_delete", "rp_insert", "rp_update", "rp_event",
          "rp_catch_mark", "rp_catch_event"}

InAttempt(pr) == pr.pc \in RpPcs

FreeSlots(ps) == {q \in ProcIds : ps[q].kind = "idle"}
HasFree(ps) == FreeSlots(ps) # {}
FirstFree(ps) == CHOOSE q \in FreeSlots(ps) : \A r \in FreeSlots(ps) : q <= r

\* The answer of a handler: HTTP status and which handler gave it
NoResp == [code |-> 0, kind |-> ""]
Answer(code, kind) == resp' = [code |-> code, kind |-> kind]

FaultChoices == IF nFaults < MaxFaults THEN {FALSE, TRUE} ELSE {FALSE}
Count(fault) == IF fault THEN nFaults + 1 ELSE nFaults

\* file.original_sha256 ?? ""
ShaOrEmpty(row) ==
  IF row.original_sha256 = Undefined THEN EmptyString ELSE row.original_sha256

---------------------------------------------------------------------------
(* Watcher (watcher.ts): the synchronous parts.  `st` carries the module   *)
(* variables timer, running, lastOpts and the activities through a         *)
(* synchronous stretch; st.ok is FALSE when the model has no slot left for *)
(* a cycle the code would start.                                           *)

WatcherState ==
  [timer |-> timer, running |-> running, lastOpts |-> lastOpts,
   procs |-> procs, ok |-> TRUE]

NewCycle(awaited) ==
  [Idle EXCEPT !.kind = "cycle", !.pc = "cy_create", !.awaited = awaited]

\* runOnce without its single-flight test
runOnceUnguarded(st, awaited) ==
  IF HasFree(st.procs) /\ Len(runs) < MaxRuns
  THEN [st EXCEPT !.running = TRUE,
                  !.procs = [@ EXCEPT ![FirstFree(st.procs)] = NewCycle(awaited)]]
  ELSE [st EXCEPT !.ok = FALSE]

\* runOnce up to its first await: if (running) return; running = true;
\* awaited: the caller awaits the cycle (triggerWatchNow from a request)
runOnce(st, awaited) ==
  IF st.running
  THEN st
  ELSE IF HasFree(st.procs) /\ Len(runs) < MaxRuns
       THEN [st EXCEPT !.running = TRUE,
                       !.procs = [@ EXCEPT ![FirstFree(st.procs)] =
                                     NewCycle(awaited)]]
       ELSE [st EXCEPT !.ok = FALSE]

\* startWatcher without its test of the timer
startWatcherUnguarded(st) ==
  runOnce([st EXCEPT !.lastOpts = TRUE, !.timer = @ + 1], FALSE)

\* startWatcher(opts)
startWatcher(st) ==
  IF st.timer > 0
  THEN [st EXCEPT !.lastOpts = TRUE]
  ELSE runOnce([st EXCEPT !.lastOpts = TRUE, !.timer = @ + 1], FALSE)

\* stopWatcher()
stopWatcher(st) == [st EXCEPT !.timer = IF @ > 0 THEN @ - 1 ELSE 0]

\* triggerWatchNow() up to the first await of the cycle it starts
triggerWatchNow(st) == IF ~st.lastOpts THEN st ELSE runOnce(st, TRUE)

Commit(st) ==
  /\ st.ok
  /\ timer' = st.timer
  /\ running' = st.running
  /\ lastOpts' = st.lastOpts
  /\ procs' = st.procs

\* hooks.server.ts: the server starts the watcher
StartWatcher ==
  /\ Commit(startWatcher(WatcherState))
  /\ resp' = NoResp
  /\ UNCHANGED <<lastOk, disk, files, chunks, events, runs, nFaults, nReqs, nEdits>>

StopWatcher ==
  /\ timer > 0
  /\ Commit(stopWatcher(WatcherState))
  /\ resp' = NoResp
  /\ UNCHANGED <<lastOk, disk, files, chunks, events, runs, nFaults, nReqs, nEdits>>

\* The setInterval callback
TimerTick ==
  /\ timer > 0
  /\ Commit(runOnce(WatcherState, FALSE))
  /\ resp' = NoResp
  /\ UNCHANGED <<lastOk, disk, files, chunks, events, runs, nFaults, nReqs, nEdits>>

---------------------------------------------------------------------------
(* Shared pieces of the steps *)

\* A read that takes a missing file for an empty one
DiskReadMissingAsEmpty(full) ==
  IF full \in DOMAIN disk /\ disk[full] # ENOENT THEN disk[full] ELSE EmptyString

\* access(full), readFile(full): the content, or ENOENT for a missing file
DiskRead(full) == IF full \in DOMAIN disk THEN disk[full] ELSE ENOENT

\* Another activity wrote to file f: attempts on f in flight are disturbed
Touched(ps, self, f) ==
  [q \in ProcIds |->
     IF q # self /\ InAttempt(ps[q]) /\ ps[q].file.id = f
     THEN [ps[q] EXCEPT !.clean = FALSE] ELSE ps[q]]

ResetAttempt(pr) ==
  [pr EXCEPT !.file = NoRow, !.text = Undefined, !.ins = 0, !.err = "",
             !.clean = TRUE]

\* watcher.ts: the for loop moves to the next candidate (scanned++) or ends
NextCandidate(pr) ==
  IF pr.idx < Len(pr.rows)
  THEN [pr EXCEPT !.idx = @ + 1, !.scanned = @ + 1, !.pc = "cy_visit"]
  ELSE [pr EXCEPT !.pc = "cy_finish"]

\* watch/run: the for loop over the targets moves on, or the handler answers
NextTarget(pr) ==
  IF pr.idx < Len(pr.rows)
  THEN [pr EXCEPT !.idx = @ + 1, !.pc = "tg_next"]
  ELSE Idle

\* Resume where a throw of reprocessFile ends the cycle's loop uncounted
ResumeAbort(pr, outcome) ==
  LET base == ResetAttempt(pr) IN
  CASE pr.kind = "cycle" ->
         IF outcome = "threw" THEN [base EXCEPT !.pc = "cy_finish"]
         ELSE NextCandidate([base EXCEPT
                !.changed = IF outcome = "changed" THEN @ + 1 ELSE @])
    [] pr.kind = "targeted" ->
         NextTarget([base EXCEPT
           !.changed = IF outcome = "changed" THEN @ + 1 ELSE @,
           !.errors = IF outcome = "threw" THEN @ + 1 ELSE @])
    [] OTHER -> Idle

\* Resume where a throw of reprocessFile is counted as a change too
ResumeCountsTwice(pr, outcome) ==
  LET base == ResetAttempt(pr) IN
  CASE pr.kind = "cycle" ->
         NextCandidate([base EXCEPT
           !.changed = IF outcome # "unchanged" THEN @ + 1 ELSE @,
           !.errors = IF outcome = "threw" THEN @ + 1 ELSE @])
    [] pr.kind = "targeted" ->
         NextTarget([base EXCEPT
           !.changed = IF outcome # "unchanged" THEN @ + 1 ELSE @,
           !.errors = IF outcome = "threw" THEN @ + 1 ELSE @])
    [] OTHER -> Idle

\* The caller of reprocessFile goes on after it returned or threw
Resume(pr, outcome) ==
  LET base == ResetAttempt(pr) IN
  CASE pr.kind = "cycle" ->
         NextCandidate([base EXCEPT
           !.changed = IF outcome = "changed" THEN @ + 1 ELSE @,
           !.errors = IF outcome = "threw" THEN @ + 1 ELSE @])
    [] pr.kind = "targeted" ->
         NextTarget([base EXCEPT
           !.changed = IF outcome = "changed" THEN @ + 1 ELSE @,
           !.errors = IF outcome = "threw" THEN @ + 1 ELSE @])
    [] OTHER -> Idle

\* The answer a handler gives when reprocessFile was its last call
AnswerAfter(pr, outcome) ==
  IF Resume(pr, outcome).kind # "idle" THEN NoResp
  ELSE IF pr.kind = "reindex" /\ outcome = "threw"
  THEN [code |-> 500, kind |-> "reindex"]
  ELSE [code |-> 200, kind |-> pr.kind]

\* reprocessFile ends for activity p (pr: its record at that moment):
\* outcome "changed" (returned changed: true), "unchanged" (fast path) or
\* "threw"; ps: the activities after this step's writes
Exit(p, pr, ps, outcome) ==
  /\ procs' = [ps EXCEPT ![p] = Resume(pr, outcome)]
  /\ resp' = AnswerAfter(pr, outcome)
  /\ lastOk' = IF outcome = "changed" /\ pr.clean
               THEN [lastOk EXCEPT ![pr.file.id] = pr.text] ELSE lastOk

\* A write to the row or the chunks of file f
Wrote(f) == lastOk' = [lastOk EXCEPT ![f] = Undefined]

\* The model's bound on the events table leaves room for another attempt
AttemptBudget ==
  BagCardinality(events) + Cardinality({q \in ProcIds : InAttempt(procs[q])})
    < MaxEvents

\* reprocessFile without its fast path
BeginNoFastPath(p, pr, row, text) ==
  /\ AttemptBudget
  /\ procs' = [procs EXCEPT ![p] =
       [pr EXCEPT !.file = row, !.text = text, !.ins = 0, !.err = "",
                  !.clean = TRUE, !.pc = "rp_mark"]]
  /\ resp' = NoResp
  /\ UNCHANGED lastOk

\* reprocessFile(file, sourceText, runId) from its call to its first await,
\* for activity p whose record is pr: sha256Hex, the fast path
\* if (oldSha && newSha === oldSha) return {changed: false}
Begin(p, pr, row, text) ==
  LET oldSha == row.original_sha256
      newSha == sha256Hex(text)
      me == [pr EXCEPT !.file = row, !.text = text, !.ins = 0, !.err = "",
                       !.clean = TRUE]
  IN IF oldSha # Undefined /\ newSha = oldSha
     THEN Exit(p, me, procs, "unchanged")
     ELSE /\ AttemptBudget
          /\ procs' = [procs EXCEPT ![p] = [me EXCEPT !.pc = "rp_mark"]]
          /\ resp' = NoResp
          /\ UNCHANGED lastOk

---------------------------------------------------------------------------
(* reprocessFile (reprocess.ts): one action per store call *)

\* const chunks = await splitter.splitText(sourceText);
\* await markFileStatus(file.id, "reindexing"): both before the try block
RpMark(p) ==
  LET pr == procs[p] IN
  /\ pr.pc = "rp_mark"
  /\ \E fault \in {"none"} \cup (IF nFaults < MaxFaults
                                   THEN {"splitText", "markFileStatus"} ELSE {}) :
       /\ nFaults' = IF fault = "none" THEN nFaults ELSE nFaults + 1
       /\ IF fault # "none"
          THEN /\ Exit(p, pr, procs, "threw")
               /\ UNCHANGED files
          ELSE /\ files' = markFileStatus(files, pr.file.id, "reindexing")
               /\ procs' = [Touched(procs, p, pr.file.id) EXCEPT
                              ![p] = [pr EXCEPT !.pc = "rp_delete"]]
               /\ resp' = NoResp
               /\ Wrote(pr.file.id)
  /\ UNCHANGED <<disk, chunks, events, runs, timer, running, lastOpts,
                 nReqs, nEdits>>

\* An attempt that goes on to its inserts without deleting the old chunks
RpDeleteSkipped(p) ==
  LET pr == procs[p] IN
  /\ pr.pc = "rp_delete"
  /\ procs' = [procs EXCEPT ![p] =
       [pr EXCEPT !.pc = IF Len(splitText(pr.text)) = 0
                         THEN "rp_update" ELSE "rp_insert"]]
  /\ resp' = NoResp
  /\ UNCHANGED <<lastOk, disk, files, chunks, events, runs, timer, running,
                 lastOpts, nReqs, nFaults, nEdits>>

\* try { await deleteChunksByFile(file.id)
RpDelete(p) ==
  LET pr == procs[p] IN
  /\ pr.pc = "rp_delete"
  /\ \E fault \in FaultChoices :
       /\ nFaults' = Count(fault)
       /\ IF fault
          THEN /\ procs' = [procs EXCEPT ![p] =
                   [pr EXCEPT !.pc = "rp_catch_mark", !.err = "deleteChunksByFile"]]
               /\ UNCHANGED <<chunks, lastOk>>
          ELSE /\ chunks' = deleteChunksByFile(chunks, pr.file.id)
               /\ procs' = [Touched(procs, p, pr.file.id) EXCEPT ![p] =
                   [pr EXCEPT !.pc = IF Len(splitText(pr.text)) = 0
                                     THEN "rp_update" ELSE "rp_insert"]]
               /\ Wrote(pr.file.id)
  /\ resp' = NoResp
  /\ UNCHANGED <<disk, files, events, runs, timer, running, lastOpts,
                 nReqs, nEdits>>

\* insertChunks: one await db.create("chunks", rec) of its loop
RpInsert(p) ==
  LET pr == procs[p]
      todo == splitText(pr.text)
  IN
  /\ pr.pc = "rp_insert"
  /\ \E fault \in FaultChoices :
       /\ nFaults' = Count(fault)
       /\ IF fault
          THEN /\ procs' = [procs EXCEPT ![p] =
                   [pr EXCEPT !.pc = "rp_catch_mark", !.err = "insertChunks"]]
               /\ UNCHANGED <<chunks, lastOk>>
          ELSE /\ chunks' = insertChunk(chunks,
                     ChunkRecord(pr.file.id, todo[pr.ins + 1], pr.ins, pr.runId))
               /\ procs' = [Touched(procs, p, pr.file.id) EXCEPT ![p] =
                   [pr EXCEPT !.ins = @ + 1,
                              !.pc = IF pr.ins + 1 = Len(todo)
                                     THEN "rp_update" ELSE "rp_insert"]]
               /\ Wrote(pr.file.id)
  /\ resp' = NoResp
  /\ UNCHANGED <<disk, files, events, runs, timer, running, lastOpts,
                 nReqs, nEdits>>

\* await markFileStatus(file.id, "uploaded", {original_text,
\*   original_sha256, chunk_count, last_indexed_at})
RpUpdate(p) ==
  LET pr == procs[p] IN
  /\ pr.pc = "rp_update"
  /\ \E fault \in FaultChoices :
       /\ nFaults' = Count(fault)
       /\ IF fault
          THEN /\ procs' = [procs EXCEPT ![p] =
                   [pr EXCEPT !.pc = "rp_catch_mark", !.err = "markFileStatus"]]
               /\ UNCHANGED <<files, lastOk>>
          ELSE /\ files' = markFileStatusPatch(files, pr.file.id, "uploaded",
                     pr.text, sha256Hex(pr.text), Len(splitText(pr.text)))
               /\ procs' = [Touched(procs, p, pr.file.id) EXCEPT ![p] =
                   [pr EXCEPT !.pc = "rp_event"]]
               /\ Wrote(pr.file.id)
  /\ resp' = NoResp
  /\ UNCHANGED <<disk, chunks, events, runs, timer, running, lastOpts,
                 nReqs, nEdits>>

\* await createReindexEvent({..., status: "ok"}); return {changed: true}
RpEvent(p) ==
  LET pr == procs[p] IN
  /\ pr.pc = "rp_event"
  /\ \E fault \in FaultChoices :
       /\ nFaults' = Count(fault)
       /\ IF fault
          THEN /\ procs' = [procs EXCEPT ![p] =
                   [pr EXCEPT !.pc = "rp_catch_mark", !.err = "createReindexEvent"]]
               /\ resp' = NoResp
               /\ UNCHANGED <<events, lastOk>>
          ELSE /\ events' = createReindexEvent(events, pr.file.id, pr.runId,
                     pr.file.original_sha256, sha256Hex(pr.text), "ok", "")
               /\ Exit(p, pr, procs, "changed")
  /\ UNCHANGED <<disk, files, chunks, runs, timer, running, lastOpts,
                 nReqs, nEdits>>

\* catch (err) { await markFileStatus(file.id, "error")
RpCatchMark(p) ==
  LET pr == procs[p] IN
  /\ pr.pc = "rp_catch_mark"
  /\ \E fault \in FaultChoices :
       /\ nFaults' = Count(fault)
       /\ IF fault
          THEN /\ Exit(p, pr, procs, "threw")
               /\ UNCHANGED files
          ELSE /\ files' = markFileStatus(files, pr.file.id, "error")
               /\ procs' = [Touched(procs, p, pr.file.id) EXCEPT
                              ![p] = [pr EXCEPT !.pc = "rp_catch_event"]]
               /\ resp' = NoResp
               /\ Wrote(pr.file.id)
  /\ UNCHANGED <<disk, chunks, events, runs, timer, running, lastOpts,
                 nReqs, nEdits>>

\* await createReindexEvent({..., status: "error", message}); throw err }
RpCatchEvent(p) ==
  LET pr == procs[p] IN
  /\ pr.pc = "rp_catch_event"
  /\ \E fault \in FaultChoices :
       /\ nFaults' = Count(fault)
       /\ IF fault
          THEN UNCHANGED events
          ELSE events' = createReindexEvent(events, pr.file.id, pr.runId,
                     pr.file.original_sha256, sha256Hex(pr.text), "error", pr.err)
       /\ Exit(p, pr, procs, "threw")
  /\ UNCHANGED <<disk, files, chunks, runs, timer, running, lastOpts,
                 nReqs, nEdits>>

---------------------------------------------------------------------------
(* runOnce (watcher.ts) after the single-flight test: one action per await *)

\* The caller of an awaited cycle answers when the cycle ends
CycleAnswer(pr, code) ==
  IF pr.awaited THEN [code |-> code, kind |-> "full"] ELSE NoResp

\* const runId = await createWatchRun(), outside the try block
CyCreate(p) ==
  LET pr == procs[p] IN
  /\ pr.pc = "cy_create"
  /\ \E fault \in FaultChoices :
       /\ nFaults' = Count(fault)
       /\ IF fault
          THEN /\ procs' = [procs EXCEPT ![p] = Idle]
               /\ resp' = CycleAnswer(pr, 500)
               /\ UNCHANGED runs
          ELSE /\ runs' = createWatchRun(runs)
               /\ procs' = [procs EXCEPT ![p] =
                              [pr EXCEPT !.pc = "cy_list", !.runId = Len(runs) + 1]]
               /\ resp' = NoResp
  /\ UNCHANGED <<lastOk, disk, files, chunks, events, timer, running, lastOpts,
                 nReqs, nEdits>>

\* files.filter((f) => f.upload_path)
Candidates(rows) == SelectSeq(rows, LAMBDA f : f.upload_path # EmptyString)

\* try { const files = await getAllFilesWithPaths(); ... first scanned++;
\* the try has no catch: a throw goes to the finally block uncounted and
\* leaves runOnce after it
CyList(p) ==
  LET pr == procs[p]
      cands == Candidates(getAllFilesWithPaths(files))
  IN
  /\ pr.pc = "cy_list"
  /\ \E fault \in FaultChoices :
       /\ nFaults' = Count(fault)
       /\ procs' = [procs EXCEPT ![p] =
            IF fault THEN [pr EXCEPT !.pc = "cy_finish",
                                     !.err = "getAllFilesWithPaths"]
            ELSE NextCandidate([pr EXCEPT !.rows = cands, !.idx = 0])]
  /\ resp' = NoResp
  /\ UNCHANGED <<lastOk, disk, files, chunks, events, runs, timer, running, lastOpts,
                 nReqs, nEdits>>

\* One iteration of the loop up to its first store call: resolve the path,
\* access, readFile, sha256Hex, compare, and into reprocessFile
CyVisit(p) ==
  LET pr == procs[p]
      row == pr.rows[pr.idx]
      fullPath == resolveOnDiskPath(row.upload_path)
      content == DiskRead(fullPath)
  IN
  /\ pr.pc = "cy_visit"
  /\ \E fault \in (IF content = ENOENT THEN {FALSE} ELSE FaultChoices) :
       /\ nFaults' = Count(fault)
       /\ IF content = ENOENT \/ fault
          THEN /\ procs' = [procs EXCEPT ![p] =
                              NextCandidate([pr EXCEPT !.errors = @ + 1])]
               /\ resp' = NoResp
               /\ UNCHANGED lastOk
          ELSE IF sha256Hex(content) # ShaOrEmpty(row)
          THEN Begin(p, [pr EXCEPT !.det = @ \cup {<<row.id, content>>}],
                     row, content)
          ELSE /\ procs' = [procs EXCEPT ![p] = NextCandidate(pr)]
               /\ resp' = NoResp
               /\ UNCHANGED lastOk
  /\ UNCHANGED <<disk, files, chunks, events, runs, timer, running, lastOpts,
                 nReqs, nEdits>>

\* finally { await finishWatchRun(runId, {...}); running = false }
CyFinish(p) ==
  LET pr == procs[p] IN
  /\ pr.pc = "cy_finish"
  /\ \E fault \in FaultChoices :
       /\ nFaults' = Count(fault)
       /\ procs' = [procs EXCEPT ![p] = Idle]
       /\ IF fault
          THEN /\ resp' = CycleAnswer(pr, 500)
               /\ UNCHANGED <<runs, running>>
          ELSE /\ runs' = finishWatchRun(runs, pr.runId, pr.scanned, pr.changed,
                                         pr.errors)
               /\ running' = FALSE
               /\ resp' = CycleAnswer(pr, IF pr.err = "" THEN 200 ELSE 500)
  /\ UNCHANGED <<lastOk, disk, files, chunks, events, timer, lastOpts, nReqs, nEdits>>

---------------------------------------------------------------------------
(* POST /api/files/register (register/+server.ts) *)

\* The handler up to its first store call: await access(diskPath),
\* const content = await readFile(diskPath, "utf8"), sha256Hex, splitText
Register ==
  /\ nReqs < MaxReqs
  /\ nReqs' = nReqs + 1
  /\ Len(files) + Cardinality({q \in ProcIds : procs[q].kind = "register"})
       < MaxFiles
  /\ \E inputPath \in InputPaths :
       LET content == DiskRead(resolveOnDiskPath(inputPath)) IN
       \E fault \in (IF content = ENOENT THEN {FALSE} ELSE FaultChoices) :
         /\ nFaults' = Count(fault)
         /\ IF content = ENOENT THEN Answer(404, "register") /\ UNCHANGED procs
            ELSE IF fault THEN Answer(500, "register") /\ UNCHANGED procs
            ELSE /\ HasFree(procs)
                 /\ procs' = [procs EXCEPT ![FirstFree(procs)] =
                      [Idle EXCEPT !.kind = "register", !.pc = "rg_create",
                                   !.path = inputPath, !.text = content]]
                 /\ resp' = NoResp
  /\ UNCHANGED <<lastOk, disk, files, chunks, events, runs, timer, running, lastOpts,
                 nEdits>>

\* const [fileRec] = await db.create("files", {..., status: "processing"})
RgCreate(p) ==
  LET pr == procs[p]
      id == Len(files) + 1
  IN
  /\ pr.pc = "rg_create"
  /\ \E fault \in FaultChoices :
       /\ nFaults' = Count(fault)
       /\ IF fault
          THEN /\ Answer(500, "register")
               /\ procs' = [procs EXCEPT ![p] = Idle]
               /\ UNCHANGED <<files, lastOk>>
          ELSE /\ files' = Append(files,
                     FileRow(id, SlashNormalize(pr.path), "processing", pr.text,
                             sha256Hex(pr.text), Len(splitText(pr.text))))
               /\ procs' = [procs EXCEPT ![p] =
                    [pr EXCEPT !.id = id,
                               !.pc = IF Len(splitText(pr.text)) = 0
                                      THEN "rg_final" ELSE "rg_chunk"]]
               /\ resp' = NoResp
               /\ Wrote(id)
  /\ UNCHANGED <<disk, chunks, events, runs, timer, running, lastOpts,
                 nReqs, nEdits>>

\* One await db.create("chunks", {...}) of the loop
RgChunk(p) ==
  LET pr == procs[p]
      todo == splitText(pr.text)
  IN
  /\ pr.pc = "rg_chunk"
  /\ \E fault \in FaultChoices :
       /\ nFaults' = Count(fault)
       /\ IF fault
          THEN /\ Answer(500, "register")
               /\ procs' = [procs EXCEPT ![p] = Idle]
               /\ UNCHANGED <<chunks, lastOk>>
          ELSE /\ chunks' = insertChunk(chunks,
                     ChunkRecord(pr.id, todo[pr.ins + 1], pr.ins, 0))
               /\ procs' = [Touched(procs, p, pr.id) EXCEPT ![p] =
                    [pr EXCEPT !.ins = @ + 1,
                               !.pc = IF pr.ins + 1 = Len(todo)
                                      THEN "rg_final" ELSE "rg_chunk"]]
               /\ resp' = NoResp
               /\ Wrote(pr.id)
  /\ UNCHANGED <<disk, files, events, runs, timer, running, lastOpts,
                 nReqs, nEdits>>

\* await db.merge(fileId, {status: "uploaded", updated_at})
RgFinal(p) ==
  LET pr == procs[p] IN
  /\ pr.pc = "rg_final"
  /\ \E fault \in FaultChoices :
       /\ nFaults' = Count(fault)
       /\ IF fault
          THEN /\ Answer(500, "register")
               /\ procs' = [procs EXCEPT ![p] = Idle]
               /\ UNCHANGED <<files, lastOk>>
          ELSE /\ files' = markFileStatus(files, pr.id, "uploaded")
               /\ procs' = [Touched(procs, p, pr.id) EXCEPT ![p] = Idle]
               /\ Answer(200, "register")
               /\ Wrote(pr.id)
  /\ UNCHANGED <<disk, chunks, events, runs, timer, running, lastOpts,
                 nReqs, nEdits>>

---------------------------------------------------------------------------
(* POST /api/files/watch/run (watch/run/+server.ts) *)

\* resolvePath(rootPath, pathArg.replace(/^[/\\]+/, ""))
resolveTargeted(pathArg) == resolvePath(rootPath, StripLeadingSeps(pathArg))

\* all.filter((f) => (f.upload_path || "").replaceAll("\\", "/") === normalizedPathArg)
Targets(rows, pathArg) ==
  SelectSeq(rows, LAMBDA f : SlashNormalize(f.upload_path) = SlashNormalize(pathArg))

\* The handler after the preflight, up to its next await: startWatcher(...),
\* then either the targeted branch up to access(resolved) or triggerWatchNow()
\* up to the first await of the cycle it starts (and the answer, when it
\* starts none)
WatchRunStart(pathArg) ==
  IF pathArg # EmptyString
  THEN /\ HasFree(procs)
       /\ Commit(startWatcher([WatcherState EXCEPT
              !.procs = [@ EXCEPT ![FirstFree(procs)] =
                 [Idle EXCEPT !.kind = "targeted", !.pc = "wr_read",
                              !.path = pathArg]]]))
       /\ resp' = NoResp
  ELSE LET st == triggerWatchNow(startWatcher(WatcherState)) IN
       /\ Commit(st)
       /\ resp' = IF \E q \in ProcIds : st.procs[q].awaited
                  THEN NoResp ELSE [code |-> 200, kind |-> "full"]

\* The handler without the test of its preflight
WatchRunUnchecked(pathArg, fault) ==
  /\ nFaults' = Count(fault)
  /\ WatchRunStart(pathArg)
  /\ UNCHANGED <<lastOk, disk, files, chunks, events, runs, nEdits>>

\* The handler for one request: the preflight db.info() (fault: it throws)
\* and the 503 answer, or the rest of the handler up to its next await
WatchRunRequest(pathArg, fault) ==
  /\ nFaults' = Count(fault)
  /\ IF fault
     THEN /\ Answer(503, "watchrun")
          /\ UNCHANGED <<timer, running, lastOpts, procs>>
     ELSE WatchRunStart(pathArg)
  /\ UNCHANGED <<lastOk, disk, files, chunks, events, runs, nEdits>>

WatchRun ==
  /\ nReqs < MaxReqs
  /\ nReqs' = nReqs + 1
  /\ \E pathArg \in InputPaths \cup {EmptyString}, fault \in FaultChoices :
       WatchRunRequest(pathArg, fault)

\* await access(resolved); const content = await readFile(resolved, "utf8")
WrRead(p) ==
  LET pr == procs[p]
      content == DiskRead(resolveTargeted(pr.path))
  IN
  /\ pr.pc = "wr_read"
  /\ \E fault \in (IF content = ENOENT THEN {FALSE} ELSE FaultChoices) :
       /\ nFaults' = Count(fault)
       /\ IF content = ENOENT
          THEN Answer(404, "targeted") /\ procs' = [procs EXCEPT ![p] = Idle]
          ELSE IF fault
          THEN Answer(500, "targeted") /\ procs' = [procs EXCEPT ![p] = Idle]
          ELSE /\ procs' = [procs EXCEPT ![p] =
                              [pr EXCEPT !.pc = "wr_list", !.text = content]]
               /\ resp' = NoResp
  /\ UNCHANGED <<lastOk, disk, files, chunks, events, runs, timer, running, lastOpts,
                 nReqs, nEdits>>

\* const all = await getAllFilesWithPaths(); the filter; the 404 answer
WrList(p) ==
  LET pr == procs[p]
      targets == Targets(getAllFilesWithPaths(files), pr.path)
  IN
  /\ pr.pc = "wr_list"
  /\ \E fault \in FaultChoices :
       /\ nFaults' = Count(fault)
       /\ IF fault
          THEN Answer(500, "targeted") /\ procs' = [procs EXCEPT ![p] = Idle]
          ELSE IF Len(targets) = 0
          THEN Answer(404, "targeted") /\ procs' = [procs EXCEPT ![p] = Idle]
          ELSE /\ procs' = [procs EXCEPT ![p] =
                     [pr EXCEPT !.pc = "tg_next", !.rows = targets, !.idx = 1,
                                !.src = pr.text, !.text = Undefined]]
               /\ resp' = NoResp
  /\ UNCHANGED <<lastOk, disk, files, chunks, events, runs, timer, running, lastOpts,
                 nReqs, nEdits>>

\* for (const f of targets) { const res = await reprocessFile(f, content)
TgNext(p) ==
  LET pr == procs[p] IN
  /\ pr.pc = "tg_next"
  /\ Begin(p, pr, pr.rows[pr.idx], pr.src)
  /\ UNCHANGED <<disk, files, chunks, events, runs, timer, running, lastOpts,
                 nReqs, nFaults, nEdits>>

---------------------------------------------------------------------------
(* POST /api/files/reindex/[id] (reindex/[id]/+server.ts) *)

\* An emptiness test that takes the empty string for a text
IsUndefined(t) == t = Undefined

\* !overrideText, !file.original_text
Falsy(t) == t = Undefined \/ t = EmptyString

\* success of the json body, by the status of the answer: false in the 404,
\* 400 and 500 answers, true in the 200 answer
ReindexSuccess(r) == r.code = 200

\* The handler for one request, from getFileById to the first await of
\* reprocessFile: the 404 and 400 answers, overrideText ?? file.original_text
ReindexRequest(id, overrideText, fault) ==
  LET file == getFileById(files, id)
      source == IF overrideText # Undefined THEN overrideText
                ELSE file.original_text
  IN
  /\ nFaults' = Count(fault)
  /\ IF fault
     THEN Answer(500, "reindex") /\ UNCHANGED <<procs, lastOk>>
     ELSE IF file = NoRow
     THEN Answer(404, "reindex") /\ UNCHANGED <<procs, lastOk>>
     ELSE IF Falsy(overrideText) /\ Falsy(file.original_text)
     THEN Answer(400, "reindex") /\ UNCHANGED <<procs, lastOk>>
     ELSE /\ HasFree(procs)
          /\ Begin(FirstFree(procs),
                   [Idle EXCEPT !.kind = "reindex", !.id = id], file, source)
  /\ UNCHANGED <<disk, files, chunks, events, runs, timer, running, lastOpts,
                 nEdits>>

Reindex ==
  /\ nReqs < MaxReqs
  /\ nReqs' = nReqs + 1
  /\ \E id \in FileIds, overrideText \in Texts \cup {Undefined},
        fault \in FaultChoices :
       ReindexRequest(id, overrideText, fault)

---------------------------------------------------------------------------
(* The environment edits or removes a file under the root *)

DiskEdit ==
  /\ nEdits < MaxEdits
  /\ \E loc \in DiskPaths, c \in Texts \cup {ENOENT} :
       /\ c # disk[loc]
       /\ disk' = [disk EXCEPT ![loc] = c]
  /\ nEdits' = nEdits + 1
  /\ resp' = NoResp
  /\ UNCHANGED <<lastOk, files, chunks, events, runs, timer, running, lastOpts, procs,
                 nReqs, nFaults>>

---------------------------------------------------------------------------

Init ==
  /\ disk = [loc \in DiskPaths |-> <<"a">>]
  /\ files = <<FileRow(1, <<"a">>, "uploaded", <<"a">>, sha256Hex(<<"a">>), 1)>>
  /\ chunks = SetToBag({ChunkRecord(1, <<"a">>, 0, 0)})
  /\ events = EmptyBag
  /\ runs = <<>>
  /\ timer = 0
  /\ running = FALSE
  /\ lastOpts = FALSE
  /\ procs = [q \in ProcIds |-> Idle]
  /\ nReqs = 0
  /\ nFaults = 0
  /\ nEdits = 0
  /\ resp = NoResp
  /\ lastOk = [f \in FileIds |-> Undefined]

Next ==
  \/ StartWatcher
  \/ StopWatcher
  \/ TimerTick
  \/ Register
  \/ WatchRun
  \/ Reindex
  \/ DiskEdit
  \/ \E p \in ProcIds :
       \/ CyCreate(p) \/ CyList(p) \/ CyVisit(p) \/ CyFinish(p)
       \/ RpMark(p) \/ RpDelete(p) \/ RpInsert(p) \/ RpUpdate(p)
       \/ RpEvent(p) \/ RpCatchMark(p) \/ RpCatchEvent(p)
       \/ RgCreate(p) \/ RgChunk(p) \/ RgFinal(p)
       \/ WrRead(p) \/ WrList(p) \/ TgNext(p)

Spec == Init /\ [][Next]_vars

---------------------------------------------------------------------------
(* POST /api/admin/backfill (admin/backfill/+server.ts): fingerprints for   *)
(* the rows stored before fingerprints were recorded                        *)

\* db.merge(fileId, {status, updated_at, original_sha256, original_length})
markFileStatusSha(fs, id, status, sha) ==
  [fs EXCEPT ![id] = [@ EXCEPT !.status = status, !.original_sha256 = sha]]

\* if (f.original_text && !f.original_sha256)
NeedsBackfill(f) == ~Falsy(f.original_text) /\ Falsy(f.original_sha256)

\* The handler up to const files = await getAllFilesWithPaths()
Backfill ==
  /\ nReqs < MaxReqs
  /\ nReqs' = nReqs + 1
  /\ HasFree(procs)
  /\ procs' = [procs EXCEPT ![FirstFree(procs)] =
                 [Idle EXCEPT !.kind = "backfill", !.pc = "bf_list"]]
  /\ resp' = NoResp
  /\ UNCHANGED <<lastOk, disk, files, chunks, events, runs, timer, running,
                 lastOpts, nFaults, nEdits>>

\* The listing arrives; the loop runs to its first row to backfill, up to
\* await markFileStatus(...), or to the answer when there is none
BfList(p) ==
  LET pr == procs[p]
      todo == SelectSeq(getAllFilesWithPaths(files), NeedsBackfill)
  IN
  /\ pr.pc = "bf_list"
  /\ \E fault \in FaultChoices :
       /\ nFaults' = Count(fault)
       /\ IF fault
          THEN Answer(500, "backfill") /\ procs' = [procs EXCEPT ![p] = Idle]
          ELSE IF Len(todo) = 0
          THEN Answer(200, "backfill") /\ procs' = [procs EXCEPT ![p] = Idle]
          ELSE /\ procs' = [procs EXCEPT ![p] =
                     [pr EXCEPT !.pc = "bf_merge", !.rows = todo, !.idx = 1]]
               /\ resp' = NoResp
  /\ UNCHANGED <<lastOk, disk, files, chunks, events, runs, timer, running,
                 lastOpts, nReqs, nEdits>>

\* await markFileStatus(f.id, f.status ?? "uploaded", {original_sha256: hash,
\* original_length}); updated++; on to the next row, or the answer
BfMerge(p) ==
  LET pr == procs[p]
      f == pr.rows[pr.idx]
  IN
  /\ pr.pc = "bf_merge"
  /\ \E fault \in FaultChoices :
       /\ nFaults' = Count(fault)
       /\ IF fault
          THEN /\ Answer(500, "backfill")
               /\ procs' = [procs EXCEPT ![p] = Idle]
               /\ UNCHANGED <<files, lastOk>>
          ELSE /\ files' = markFileStatusSha(files, f.id, f.status,
                                             sha256Hex(f.original_text))
               /\ procs' = [Touched(procs, p, f.id) EXCEPT ![p] =
                    IF pr.idx < Len(pr.rows)
                    THEN [pr EXCEPT !.idx = @ + 1] ELSE Idle]
               /\ resp' = IF pr.idx < Len(pr.rows) THEN NoResp
                          ELSE [code |-> 200, kind |-> "backfill"]
               /\ Wrote(f.id)
  /\ UNCHANGED <<disk, chunks, events, runs, timer, running, lastOpts,
                 nReqs, nEdits>>

\* A store whose one row was stored before fingerprints were recorded: it
\* has its text and its chunk, and no original_sha256
InitLegacy ==
  /\ disk = [loc \in DiskPaths |-> <<"a">>]
  /\ files = <<FileRow(1, <<"a">>, "uploaded", <<"a">>, Undefined, 1)>>
  /\ chunks = SetToBag({ChunkRecord(1, <<"a">>, 0, 0)})
  /\ events = EmptyBag
  /\ runs = <<>>
  /\ timer = 0
  /\ running = FALSE
  /\ lastOpts = FALSE
  /\ procs = [q \in ProcIds |-> Idle]
  /\ nReqs = 0
  /\ nFaults = 0
  /\ nEdits = 0
  /\ resp = NoResp
  /\ lastOk = [f \in FileIds |-> Undefined]

NextLegacy ==
  \/ Next
  \/ Backfill
  \/ \E p \in ProcIds : BfList(p) \/ BfMerge(p)

SpecLegacy == InitLegacy /\ [][NextLegacy]_vars

---------------------------------------------------------------------------
(* Vocabulary of the properties *)

\* The scan cycles in flight
Cycles == {q \in ProcIds : procs[q].kind = "cycle"}

\* The reprocessing attempts in progress on file f
Attempts(f) == {q \in ProcIds : InAttempt(procs[q]) /\ procs[q].file.id = f}

\* In this step the attempt of activity p ends, by return or by throw
Ended(p) == InAttempt(procs[p]) /\ ~InAttempt(procs'[p])

\* In this step reprocessFile throws to the caller of activity p: out of the
\* code before the try block, or out of the catch block
Threw(p) ==
  /\ procs[p].pc \in {"rp_mark", "rp_catch_mark", "rp_catch_event"}
  /\ ~InAttempt(procs'[p])

\* In this step activity p calls reprocessFile and goes past the fast path
Entered(p) == procs[p].pc # "rp_mark" /\ procs'[p].pc = "rp_mark"

\* The chunks stored for file f are exactly the chunks of text t, in order
HasChunksOf(ch, f, t) ==
  /\ {<<c.chunk_index, c.content>> : c \in ChunksOf(ch, f)}
       = {<<i - 1, splitText(t)[i]>> : i \in 1..Len(splitText(t))}
  /\ ChunkCountOf(ch, f) = Len(splitText(t))

---------------------------------------------------------------------------
(* Single flight *)

\* C1: at most one scan cycle is in flight at any time; a cycle starts only
\* in a step that finds the flag clear and sets it, and that step creates no
\* WatchRun record and writes nothing, so an invocation that finds the flag
\* set starts no cycle, neither then nor later on its account.
C1_SingleFlight ==
  /\ [](Cardinality(Cycles) <= 1)
  /\ [][/\ (\E q \in ProcIds : procs'[q].kind = "cycle" /\ procs[q].kind # "cycle")
            => (~running /\ running' /\ runs' = runs /\ files' = files)
        /\ Len(runs') > Len(runs)
            => (\E q \in Cycles : procs[q].pc = "cy_create" /\ Cycles' = Cycles)
       ]_vars

\* C1 witness: a full watch/run request found a timer-started cycle running,
\* its triggerWatchNow was dropped and the request answered at once.
C1_Witness ==
  /\ running
  /\ resp = [code |-> 200, kind |-> "full"]
  /\ \E q \in ProcIds : procs[q].kind = "cycle" /\ ~procs[q].awaited
  /\ Cardinality(Cycles) = 1

\* C2: whenever a cycle ends, normally or by a throw of one of its store
\* calls, the single-flight flag is clear afterwards.
C2_FlagClearedAtEnd ==
  [][\A p \in ProcIds :
       (procs[p].kind = "cycle" /\ procs'[p].kind # "cycle") => ~running']_vars

---------------------------------------------------------------------------
(* Cycle accounting *)

\* In this step the cycle p fails on the file it is visiting
CycleFailure(p) ==
  \/ /\ procs[p].pc = "cy_visit"
     /\ procs'[p] # procs[p]
     /\ \/ DiskRead(resolveOnDiskPath(
              procs[p].rows[procs[p].idx].upload_path)) = ENOENT
        \/ nFaults' # nFaults
  \/ procs[p].kind = "cycle" /\ Threw(p)

\* C3: a failure on one file of a cycle (source missing, read error, throw
\* of the reprocessor) adds one to the cycle's error counter and the loop
\* goes on with the next candidate; the counter never decreases; the loop is
\* left only when all N candidates were visited, with scanned = N; and the
\* finalized run stores that scanned total and the error total.
C3_FailureCountedCycleContinues ==
  /\ [](\A p \in Cycles :
          /\ procs[p].pc \in {"cy_visit"} \cup RpPcs
               => procs[p].scanned = procs[p].idx
          /\ procs[p].pc = "cy_finish"
               => /\ procs[p].idx = Len(procs[p].rows)
                  /\ procs[p].scanned = Len(procs[p].rows))
  /\ [][\A p \in Cycles :
          LET pr == procs[p]
              nx == procs'[p]
          IN /\ CycleFailure(p)
                  => /\ nx.errors = pr.errors + 1
                     /\ IF pr.idx < Len(pr.rows)
                        THEN nx.pc = "cy_visit" /\ nx.idx = pr.idx + 1
                        ELSE nx.pc = "cy_finish"
             /\ nx.kind = "cycle"
                  => nx.errors >= pr.errors /\ nx.idx >= pr.idx
             /\ (pr.pc = "cy_finish" /\ runs' # runs)
                  => /\ runs'[pr.runId].finished_at
                     /\ runs'[pr.runId].file_count = pr.scanned
                     /\ runs'[pr.runId].error_count = pr.errors
       ]_vars

\* C3 witness: without any store fault, a finalized run over two files at
\* different paths, one of them missing on disk: scanned 2, errors 1.
C3_Witness ==
  /\ nFaults = 0
  /\ Len(files) = 2
  /\ files[1].upload_path # files[2].upload_path
  /\ \E r \in 1..Len(runs) :
       /\ runs[r].finished_at
       /\ runs[r].file_count = 2
       /\ runs[r].error_count = 1

---------------------------------------------------------------------------
(* The reprocessor *)

\* C4: reprocessing is idempotent: a call of reprocessFile for a file with
\* text T that follows a call with the same T which returned changed: true,
\* nothing having written to the file in between, does not go past the fast
\* path (it returns changed: false and writes nothing).
C4_Idempotent ==
  [][\A p \in ProcIds :
       Entered(p) => lastOk[procs'[p].file.id] # procs'[p].text]_vars

\* C5: a tracked file whose status is uploaded or ready has chunk_count equal
\* to the number of chunk rows stored for it, in every reachable state.
C5_ChunkCountMatches ==
  \A f \in 1..Len(files) :
    files[f].status \in {"uploaded", "ready"}
      => files[f].chunk_count = ChunkCountOf(chunks, f)

\* C6: no two reprocessing attempts for the same file are in progress at the
\* same time.
C6_NoOverlappingAttempts ==
  \A f \in FileIds : Cardinality(Attempts(f)) <= 1

\* C7: when an attempt fails (reprocessFile throws to its caller after the
\* fingerprint comparison), the file's status is error and a ReindexEvent
\* with status error carrying the message is recorded for the file.
C7_FailureMarkedAndRecorded ==
  [][\A p \in ProcIds :
       Threw(p) =>
         LET f == procs[p].file.id IN
         /\ files'[f].status = "error"
         /\ \E e \in DOMAIN events' :
              e.file_id = f /\ e.status = "error" /\ e.message # ""]_vars

\* C8: exactly one ReindexEvent is recorded per reprocessing attempt: the
\* step that ends an attempt adds one event, and no other step adds any.
C8_OneEventPerAttempt ==
  [][/\ \A p \in ProcIds :
          Ended(p) => BagCardinality(events') = BagCardinality(events) + 1
     /\ events' # events => \E p \in ProcIds : Ended(p)]_vars

---------------------------------------------------------------------------
(* Change detection *)

C10_FailedAttemptIsRetried ==
  [][/\ \A f \in 1..Len(files) :
          files'[f].original_sha256 # files[f].original_sha256
            => \E p \in Attempts(f) :
                 procs[p].pc = "rp_update" /\ procs'[p].pc = "rp_event"
     /\ \A p \in ProcIds :
          (Threw(p) /\ procs[p].err # "createReindexEvent")
            => files'[procs[p].file.id].original_sha256
                 # sha256Hex(procs[p].text)]_vars

---------------------------------------------------------------------------
(* Text and fingerprint *)

\* C11: in every reachable state, a tracked file that has both
\* original_text and original_sha256 has original_sha256 equal to the
\* fingerprint of original_text, also when operations on the file interleave.
C11_ShaMatchesText ==
  \A f \in 1..Len(files) :
    (files[f].original_text # Undefined /\ files[f].original_sha256 # Undefined)
      => files[f].original_sha256 = sha256Hex(files[f].original_text)

---------------------------------------------------------------------------
(* Chunk sets *)

\* In this step the attempt of activity p returns {changed: true}
Succeeded(p) == procs[p].pc = "rp_event" /\ ~InAttempt(procs'[p])

\* The chunk rows cs are numbered 0..n-1 without gap or duplicate, start_char
\* grows with chunk_index and end_char is start_char plus the content length
DenseChunks(ch, f, n) ==
  /\ {c.chunk_index : c \in ChunksOf(ch, f)} = 0..(n - 1)
  /\ ChunkCountOf(ch, f) = n
  /\ \A c, d \in ChunksOf(ch, f) :
       c.chunk_index < d.chunk_index => c.start_char < d.start_char
  /\ \A c \in ChunksOf(ch, f) :
       c.end_char = c.start_char + ContentLength(c.content)

\* C12: after a successful reprocess that produced N chunks, the chunk rows
\* stored for the file have chunk_index exactly 0..N-1 (no gap, no
\* duplicate), start_char strictly increasing with chunk_index, and
\* end_char = start_char + length of the chunk's content.
C12_DenseChunkIndices ==
  [][\A p \in ProcIds :
       Succeeded(p) =>
         DenseChunks(chunks', procs[p].file.id, Len(splitText(procs[p].text)))
    ]_vars

---------------------------------------------------------------------------
(* Status of a tracked file *)

\* In this step the status of file f changes
StatusStep(f, from, to) ==
  files[f].status \in from /\ files'[f].status \in to

\* In this step an attempt on file f makes the store call awaited at pc
AttemptStep(f, pc, next) ==
  \E p \in Attempts(f) : procs[p].pc = pc /\ procs'[p].pc = next

\* In this step a backfill writes the row of file f back with the status of
\* its listing
BackfillStep(f) ==
  \E p \in ProcIds :
    /\ procs[p].pc = "bf_merge"
    /\ procs'[p] # procs[p]
    /\ procs[p].rows[procs[p].idx].id = f
    /\ files'[f].status = procs[p].rows[procs[p].idx].status

AllStatuses ==
  {"pending", "uploading", "processing", "uploaded", "ready", "reindexing",
   "error"}

---------------------------------------------------------------------------
(* Chunk sets after an attempt *)

\* C15: no partial chunk set is left behind: when a reprocessing attempt has
\* ended, by return or by throw, the chunk rows stored for the file are all
\* the chunks of the previous text or all the chunks of the new text.
C15_NoPartialChunkSet ==
  [][\A p \in ProcIds :
       Ended(p) =>
         \/ HasChunksOf(chunks', procs[p].file.id, procs[p].file.original_text)
         \/ HasChunksOf(chunks', procs[p].file.id, procs[p].text)]_vars

---------------------------------------------------------------------------
(* WatchRun records *)

\* C14 as stated: every cycle that creates a WatchRun finalizes it: a cycle
\* that holds a WatchRun ends only with finished_at set on it.
C14_EveryRunFinalized ==
  [][\A p \in ProcIds :
       (procs[p].kind = "cycle" /\ procs[p].runId # 0
          /\ procs'[p].kind # "cycle")
         => runs'[procs[p].runId].finished_at]_vars

\* C16: in every finalized WatchRun changed <= scanned, errors <= scanned
\* and changed + errors <= scanned (the scanned total is stored as
\* file_count); and in a cycle under way every visited file is counted in at
\* most one of changed and errors, the file being visited in none yet.
C16_CountsReconcile ==
  /\ \A r \in 1..Len(runs) :
       runs[r].finished_at =>
         /\ runs[r].changed_count <= runs[r].file_count
         /\ runs[r].error_count <= runs[r].file_count
         /\ runs[r].changed_count + runs[r].error_count <= runs[r].file_count
  /\ \A p \in Cycles :
       procs[p].changed + procs[p].errors
         <= IF procs[p].pc \in {"cy_visit"} \cup RpPcs
            THEN procs[p].scanned - 1 ELSE procs[p].scanned

\* C16 witness: a finalized run over two files, one re-chunked and one
\* failed: every scanned file is counted, each once.
C16_Witness ==
  \E r \in 1..Len(runs) :
    /\ runs[r].finished_at
    /\ runs[r].file_count = 2
    /\ runs[r].changed_count = 1
    /\ runs[r].error_count = 1

---------------------------------------------------------------------------
(* Targeted runs *)

\* How many ReindexEvents with status ok record fingerprint sha for file f
OkEvents(ev, f, sha) ==
  LET hits == {e \in DOMAIN ev :
                 e.file_id = f /\ e.status = "ok" /\ e.new_sha256 = sha}
  IN BagCardinality([e \in hits |-> ev[e]])

\* C17: when a targeted run has reprocessed a file whose source content
\* changed (its attempt returns changed: true), exactly one ReindexEvent
\* with status ok exists for the file and the new content, its old
\* fingerprint differs from its new one, and the chunk rows of the file are
\* exactly the chunks of the new content, none of the previous rows remaining.
C17_TargetedRunReplaces ==
  [][\A p \in ProcIds :
       (procs[p].kind = "targeted" /\ Succeeded(p)) =>
         LET f == procs[p].file.id
             t == procs[p].text
         IN /\ OkEvents(events', f, sha256Hex(t)) = 1
            /\ \A e \in DOMAIN events' :
                 (e.file_id = f /\ e.status = "ok") => e.old_sha256 # e.new_sha256
            /\ HasChunksOf(chunks', f, t)]_vars

---------------------------------------------------------------------------
(* Unchanged sources *)

\* C18: a watcher cycle or a targeted run that comes to a file whose source
\* is unchanged (the fingerprint of the content read is the fingerprint the
\* registration stored) reports changed: false for it and writes nothing
\* for it: no attempt is entered, no ReindexEvent is added, the file rows
\* and the chunks stay as they are, and neither counter of the run moves.
C18_UnchangedSourceWritesNothing ==
  [][\A p \in ProcIds :
       LET pr == procs[p]
           nx == procs'[p]
       IN /\ (pr.pc = "cy_visit" /\ nx # pr /\ nFaults' = nFaults)
               => LET row == pr.rows[pr.idx]
                      content == DiskRead(resolveOnDiskPath(row.upload_path))
                  IN (content # ENOENT /\ row.original_sha256 = sha256Hex(content))
                       => /\ ~InAttempt(nx)
                          /\ nx.changed = pr.changed /\ nx.errors = pr.errors
                          /\ files' = files /\ chunks' = chunks
                          /\ events' = events
          /\ (pr.pc = "tg_next" /\ nx # pr
                /\ pr.rows[pr.idx].original_sha256 = sha256Hex(pr.src))
                    => /\ ~InAttempt(nx)
                       /\ nx.kind = "targeted"
                            => nx.changed = pr.changed /\ nx.errors = pr.errors
                       /\ nx.kind = "idle"
                            => resp' = [code |-> 200, kind |-> "targeted"]
                       /\ files' = files /\ chunks' = chunks
                       /\ events' = events]_vars

\* C18 witness: a cycle listed a file after its registration had completed,
\* visited it and the file of the initial store, both unchanged, and has
\* reached its end with nothing changed, no error, no ReindexEvent, and the
\* rows and chunks as the registration left them.
C18_Witness ==
  /\ nFaults = 0 /\ nEdits = 0
  /\ events = EmptyBag
  /\ \E p \in Cycles :
       /\ procs[p].pc = "cy_finish"
       /\ Len(procs[p].rows) = 2
       /\ procs[p].rows[2].status = "uploaded"
       /\ procs[p].scanned = 2
       /\ procs[p].changed = 0
       /\ procs[p].errors = 0
       /\ files = procs[p].rows
       /\ HasChunksOf(chunks, 2, files[2].original_text)

---------------------------------------------------------------------------
(* Registration *)

\* C19: when POST /files/register answers 200, the one tracked file it
\* created has status uploaded, original_sha256 equal to the fingerprint of
\* the content the handler read, and chunk_count equal both to the returned
\* chunkCount and to the number of chunk rows stored for the file.
C19_RegisterResult ==
  [][\A p \in ProcIds :
       (procs[p].pc = "rg_final" /\ resp' = [code |-> 200, kind |-> "register"])
         => LET id == procs[p].id
                chunkCount == Len(splitText(procs[p].text))
            IN /\ files'[id].upload_path = SlashNormalize(procs[p].path)
               /\ files'[id].status = "uploaded"
               /\ files'[id].original_sha256 = sha256Hex(procs[p].text)
               /\ files'[id].chunk_count = chunkCount
               /\ ChunkCountOf(chunks', id) = chunkCount]_vars

---------------------------------------------------------------------------
(* POST /files/reindex/{id}: the refusals *)

\* C20: a reindex request whose id is unknown is answered 404 with
\* success: false, and one for a file without stored text that supplies no
\* override text is answered 400; in both cases no file row, chunk or
\* ReindexEvent is written and no attempt is started; and the handler gives
\* these two answers in no other case.
C20_ReindexRefusals ==
  [][\A id \in FileIds, overrideText \in Texts \cup {Undefined} :
       (nReqs' = nReqs + 1 /\ ReindexRequest(id, overrideText, FALSE)) =>
         LET unknown == id > Len(files)
             noText == /\ ~unknown
                       /\ overrideText \in {Undefined, EmptyString}
                       /\ files[id].original_text \in {Undefined, EmptyString}
             written == files' # files \/ chunks' # chunks \/ events' # events
                          \/ procs' # procs
         IN /\ unknown => resp'.code = 404 /\ ~ReindexSuccess(resp') /\ ~written
            /\ noText => resp'.code = 400 /\ ~ReindexSuccess(resp') /\ ~written
            /\ resp'.code \in {404, 400} => unknown \/ noText]_vars

\* C20 witness: a reindex request without override text for a file whose
\* stored text is empty has been answered 400, no attempt being in flight.
C20_Witness ==
  /\ resp = [code |-> 400, kind |-> "reindex"]
  /\ nReqs = 1
  /\ \E f \in 1..Len(files) : files[f].original_text = EmptyString
  /\ \A q \in ProcIds : procs[q].kind # "reindex"

---------------------------------------------------------------------------
(* Frame of a reprocess *)

\* In this step activity p, inside an attempt, makes its store call
OwnStep(p) ==
  /\ InAttempt(procs[p])
  /\ procs'[p].pc # procs[p].pc \/ procs'[p].ins # procs[p].ins

\* The rows of bag b that do not belong to file f are the same in b2
SameRowsOfOthers(b, b2, f) ==
  \A x \in DOMAIN b \cup DOMAIN b2 :
    x.file_id # f => CopiesIn(x, b2) = CopiesIn(x, b)

\* C21: a reprocess of file F (from a manual reindex, a targeted run or a
\* cycle) changes only F's record and F's chunks and appends events only for
\* F: every store call of the attempt leaves the record and the chunk rows
\* of every other tracked file as they are, creates no file, and removes no
\* event.
C21_ReprocessTouchesOnlyItsFile ==
  [][\A p \in ProcIds :
       OwnStep(p) =>
         LET f == procs[p].file.id IN
         /\ Len(files') = Len(files)
         /\ \A g \in 1..Len(files) : g # f => files'[g] = files[g]
         /\ SameRowsOfOthers(chunks, chunks', f)
         /\ SameRowsOfOthers(events, events', f)
         /\ \A e \in DOMAIN events : CopiesIn(e, events') >= CopiesIn(e, events)
    ]_vars

\* C21 witness: of two tracked files at different paths, one has been
\* reprocessed with a two-chunk text (ok event, new chunks) and the other
\* has its record and its chunk as registered, and no event.
C21_Witness ==
  /\ Len(files) = 2
  /\ files[1].upload_path # files[2].upload_path
  /\ \E f \in {1, 2} :
       LET g == 3 - f IN
       /\ Len(files[f].original_text) = 2
       /\ HasChunksOf(chunks, f, files[f].original_text)
       /\ \E e \in DOMAIN events : e.file_id = f /\ e.status = "ok"
       /\ files[g].status = "uploaded"
       /\ files[g].original_text = <<"a">>
       /\ HasChunksOf(chunks, g, <<"a">>)
       /\ \A e \in DOMAIN events : e.file_id # g

---------------------------------------------------------------------------
(* POST /files/watch/run *)

\* C22: when the store preflight fails, the request is answered 503 and
\* nothing is started: the timer, the options and the single-flight flag are
\* as before, no cycle and no targeted run is started, no WatchRun is
\* created and no file, chunk or event is written; and 503 is answered in no
\* other case.
C22_PreflightFailure ==
  [][/\ \A pathArg \in InputPaths \cup {EmptyString} :
          (nReqs' = nReqs + 1 /\ WatchRunRequest(pathArg, TRUE)) =>
            /\ resp' = [code |-> 503, kind |-> "watchrun"]
            /\ UNCHANGED <<timer, running, lastOpts, procs, runs, files,
                           chunks, events>>
     /\ resp'.code = 503 => nFaults' = nFaults + 1]_vars

\* C22 witness: on a server whose watcher was never started, a watch/run
\* request has been answered 503: no timer, no options, no cycle, no run.
C22_Witness ==
  /\ resp = [code |-> 503, kind |-> "watchrun"]
  /\ timer = 0 /\ ~lastOpts /\ ~running
  /\ runs = <<>>
  /\ \A q \in ProcIds : procs[q] = Idle

\* C23: a watch/run request that carries a path starts no full scan cycle,
\* whatever the state of the watcher (and so causes no WatchRun record), and
\* the files its targeted run reprocesses are tracked files whose stored
\* path matches the path of the request.
C23_TargetedStartsNoCycle ==
  /\ [][\A pathArg \in InputPaths :
          (nReqs' = nReqs + 1 /\ WatchRunRequest(pathArg, FALSE))
            => Cycles' = Cycles /\ running' = running]_vars
  /\ [](\A p \in ProcIds :
          (procs[p].kind = "targeted" /\ InAttempt(procs[p]))
            => SlashNormalize(procs[p].file.upload_path)
                 = SlashNormalize(procs[p].path))

\* C24: once a registration of path P has created its row, the path the
\* watcher cycle resolves from the row's stored path and the path a targeted
\* run resolves from P are the on-disk path that registration read, and the
\* targeted run's filter on P selects the registered row.
C24_SameFileResolved ==
  \A p \in ProcIds :
    (procs[p].kind = "register" /\ procs[p].id \in 1..Len(files)) =>
      LET P == procs[p].path
          row == getFileById(files, procs[p].id)
      IN
      /\ resolveOnDiskPath(row.upload_path) = resolveOnDiskPath(P)
      /\ resolveTargeted(P) = resolveOnDiskPath(P)
      /\ \E i \in 1..Len(Targets(getAllFilesWithPaths(files), P)) :
           Targets(getAllFilesWithPaths(files), P)[i].id = row.id

\* C25: a watch/run request without a path, issued while no cycle is in
\* flight, starts exactly one full cycle (the activity that creates one
\* WatchRun record), whether or not the timer was set before the request.
C25_FullRequestStartsOneCycle ==
  [][(nReqs' = nReqs + 1 /\ WatchRunRequest(EmptyString, FALSE) /\ Cycles = {})
       => Cardinality({q \in ProcIds : procs'[q].kind = "cycle"}) = 1]_vars

\* The resolved path p lies inside the configured root directory
InsideRoot(p) ==
  /\ Len(p) > Len(rootPath)
  /\ SubSeq(p, 1, Len(rootPath)) = rootPath

\* C26: for a locator that is not a drive-letter or UNC path, the path that
\* a registration reads, and the path that a cycle reads for a stored row,
\* lies inside the configured root directory.
C26_ReadsInsideRoot ==
  \A p \in ProcIds :
    /\ (procs[p].kind = "register" /\ ~IsDriveAbs(procs[p].path))
         => InsideRoot(resolveOnDiskPath(procs[p].path))
    /\ (procs[p].pc = "cy_visit"
          /\ ~IsDriveAbs(procs[p].rows[procs[p].idx].upload_path))
         => InsideRoot(resolveOnDiskPath(procs[p].rows[procs[p].idx].upload_path))

\* No file is at the resolved path
Missing(full) == full \notin DOMAIN disk \/ disk[full] = ENOENT

\* In this step cycle p visits a row whose resolved source path is missing,
\* or whose read fails
SourceUnreadable(p) ==
  /\ procs[p].pc = "cy_visit"
  /\ procs'[p] # procs[p]
  /\ \/ Missing(resolveOnDiskPath(procs[p].rows[procs[p].idx].upload_path))
     \/ nFaults' # nFaults

C28_StopDoesNotInterrupt ==
  /\ [][(\E q \in ProcIds : /\ procs[q].kind # "cycle"
                            /\ procs'[q].kind = "cycle"
                            /\ ~procs'[q].awaited)
          => timer > 0 \/ timer' > 0]_vars
  /\ [][(timer > 0 /\ timer' = 0)
          => procs' = procs /\ running' = running /\ runs' = runs]_vars
  /\ [][\A p \in ProcIds :
          (timer = 0 /\ procs[p].kind = "cycle" /\ procs[p].runId # 0
             /\ procs'[p].kind # "cycle")
            => /\ procs[p].pc = "cy_finish"
               /\ runs'[procs[p].runId].finished_at
               /\ ~running']_vars

\* C29: the store writes of one reprocessing attempt come in a fixed order.
\* A step of the attempt whose store call succeeds does exactly this: at
\* rp_mark it sets the status reindexing and goes to the delete; at rp_delete,
\* no chunk inserted yet, it leaves no chunk of the file and goes to the
\* inserts; at rp_insert it adds one chunk, and goes to the update only when
\* every chunk is inserted; at rp_update, every chunk inserted, it sets the
\* status uploaded with text, fingerprint and chunk_count and goes to the
\* event; at rp_event it records the ok event and the attempt ends.
C29_WriteOrder ==
  [][\A p \in ProcIds :
       (OwnStep(p) /\ nFaults' = nFaults) =>
         LET pr == procs[p]
             f == pr.file.id
             n == Len(splitText(pr.text))
         IN
         /\ pr.pc = "rp_mark" =>
              /\ files'[f].status = "reindexing"
              /\ chunks' = chunks /\ events' = events
              /\ procs'[p].pc = "rp_delete"
         /\ pr.pc = "rp_delete" =>
              /\ pr.ins = 0
              /\ files[f].status = "reindexing" \/ ~pr.clean
              /\ ChunkCountOf(chunks', f) = 0
              /\ files' = files /\ events' = events
              /\ procs'[p].pc = IF n = 0 THEN "rp_update" ELSE "rp_insert"
         /\ pr.pc = "rp_insert" =>
              /\ pr.ins < n
              /\ BagCardinality(chunks') = BagCardinality(chunks) + 1
              /\ procs'[p].ins = pr.ins + 1
              /\ files' = files /\ events' = events
              /\ procs'[p].pc = IF pr.ins + 1 = n THEN "rp_update" ELSE "rp_insert"
         /\ pr.pc = "rp_update" =>
              /\ pr.ins = n
              /\ files'[f].status = "uploaded"
              /\ files'[f].original_text = pr.text
              /\ files'[f].original_sha256 = sha256Hex(pr.text)
              /\ files'[f].chunk_count = n
              /\ chunks' = chunks /\ events' = events
              /\ procs'[p].pc = "rp_event"
         /\ pr.pc = "rp_event" =>
              /\ BagCardinality(events') = BagCardinality(events) + 1
              /\ OkEvents(events', f, sha256Hex(pr.text))
                   = OkEvents(events, f, sha256Hex(pr.text)) + 1
              /\ files' = files /\ chunks' = chunks
              /\ ~InAttempt(procs'[p])]_vars

\* An attempt on a two-chunk text went through undisturbed: its ok event is
\* recorded, the row is uploaded with the new text and both chunks stored.
C29_Witness ==
  /\ Len(lastOk[1]) = 2
  /\ lastOk[1] # Undefined
  /\ files[1].status = "uploaded"
  /\ files[1].original_text = lastOk[1]
  /\ HasChunksOf(chunks, 1, lastOk[1])
  /\ OkEvents(events, 1, sha256Hex(lastOk[1])) = 1

\* C30: when a cycle's attempt and a targeted or manual attempt on the same
\* file, with the same source text, have both made all their writes to the
\* file (each has only its ok event left to record), the file is as one
\* reprocess leaves it: status uploaded, the chunks of the text with each
\* index 0..N-1 once, chunk_count N.
C30_OverlapAsSingleReprocess ==
  \A p, q \in ProcIds :
    (/\ procs[p].kind = "cycle"
     /\ procs[q].kind \in {"targeted", "reindex"}
     /\ procs[p].pc = "rp_event" /\ procs[q].pc = "rp_event"
     /\ procs[p].file.id = procs[q].file.id
     /\ procs[p].text = procs[q].text)
      => LET f == procs[p].file.id
             n == Len(splitText(procs[p].text))
         IN
         /\ files[f].status = "uploaded"
         /\ files[f].chunk_count = n
         /\ HasChunksOf(chunks, f, procs[p].text)

\* C31: when a cycle visits a row whose file is up to date at that moment
\* (no attempt on it in progress, status uploaded, the stored fingerprint
\* that of the source on disk), the cycle starts no attempt on it, does not
\* count it as changed and writes no row, chunk or ReindexEvent.
C31_VisitUsesStoredFingerprint ==
  [][\A p \in ProcIds :
       LET row == procs[p].rows[procs[p].idx]
           content == DiskRead(resolveOnDiskPath(row.upload_path))
       IN
       (/\ procs[p].pc = "cy_visit"
        /\ procs'[p] # procs[p]
        /\ nFaults' = nFaults
        /\ content # ENOENT
        /\ Attempts(row.id) = {}
        /\ files[row.id].status = "uploaded"
        /\ files[row.id].original_sha256 = sha256Hex(content))
         => /\ ~InAttempt(procs'[p])
            /\ procs'[p].changed = procs[p].changed
            /\ files' = files /\ chunks' = chunks /\ events' = events]_vars

\* C32: in the step that finalizes a cycle's WatchRun, the totals the cycle
\* accumulated are stored in the count attributes the run was created with:
\* scanned_count is the number of candidates visited, changed_count the
\* number changed, error_count the number of errors.
C32_TotalsInCountAttributes ==
  [][\A p \in ProcIds :
       (procs[p].pc = "cy_finish" /\ procs'[p].kind # "cycle"
          /\ runs'[procs[p].runId].finished_at)
         => /\ runs'[procs[p].runId].scanned_count = procs[p].scanned
            /\ runs'[procs[p].runId].changed_count = procs[p].changed
            /\ runs'[procs[p].runId].error_count = procs[p].errors]_vars

\* C33: in the step in which a reprocessing attempt sets the status of its
\* file to error, the fingerprint stored for the file differs from the
\* fingerprint of the attempt's source text (so that the next cycle over the
\* same source finds a mismatch and calls the reprocessor again).
C33_ErrorLeavesMismatch ==
  [][\A p \in ProcIds :
       (procs[p].pc = "rp_catch_mark" /\ procs'[p].pc = "rp_catch_event")
         => /\ files'[procs[p].file.id].status = "error"
            /\ files'[procs[p].file.id].original_sha256
                 # sha256Hex(procs[p].text)]_vars

\* A registration or a reprocessing attempt is at work on file f
OperationOn(f) ==
  \E p \in ProcIds :
    \/ InAttempt(procs[p]) /\ procs[p].file.id = f
    \/ procs[p].kind = "register" /\ procs[p].id = f

\* C34: a file on which no registration and no reprocessing attempt is in
\* progress has status uploaded or error, never a transient status.
C34_NoTransientStatusAtRest ==
  \A f \in 1..Len(files) :
    ~OperationOn(f) => files[f].status \in {"uploaded", "error"}

\* The WatchRun records without finished_at
OpenRuns == {r \in 1..Len(runs) : ~runs[r].finished_at}

\* C35: in every reachable state at most one WatchRun has no finished_at,
\* and a WatchRun without finished_at is the run of a cycle in flight.
C35_OneOpenRunOfACycle ==
  /\ Cardinality(OpenRuns) <= 1
  /\ \A r \in OpenRuns :
       \E p \in ProcIds : procs[p].kind = "cycle" /\ procs[p].runId = r

\* C36: at most one interval timer is set at any time; a call of
\* startWatcher while a timer is set (at server start, or from a watch/run
\* request) sets no timer and starts no cycle, it stores the options only: a
\* cycle that starts in a watch/run request made while the timer is set is
\* the awaited cycle of triggerWatchNow, in a request without a path; and
\* while the watcher has never been started (no options stored)
\* triggerWatchNow returns without starting a cycle.
C36_SingleTimer ==
  /\ [](timer <= 1)
  /\ [](~lastOpts => triggerWatchNow(WatcherState) = WatcherState)
  /\ [][(timer > 0 /\ StartWatcher)
          => timer' = timer /\ lastOpts' /\ procs' = procs
               /\ running' = running]_vars
  /\ [][\A pathArg \in InputPaths \cup {EmptyString} :
          (timer > 0 /\ nReqs' = nReqs + 1 /\ WatchRunRequest(pathArg, FALSE))
            => /\ timer' = timer
               /\ lastOpts'
               /\ \A q \in ProcIds :
                    (procs[q].kind # "cycle" /\ procs'[q].kind = "cycle")
                      => procs'[q].awaited /\ pathArg = EmptyString]_vars

\* A watch/run request without a path was made while the timer was set: the
\* one cycle in flight is the awaited cycle of triggerWatchNow (with no timer
\* set, startWatcher would have started a cycle of its own and
\* triggerWatchNow would have found the flag set).
C36_Witness ==
  /\ timer = 1
  /\ lastOpts
  /\ running
  /\ nReqs = 1
  /\ Cardinality(Cycles) = 1
  /\ \E p \in Cycles : procs[p].awaited /\ procs[p].pc = "cy_create"

====
